---- MODULE Spec2Model ----
(***************************************************************************)
(* The file-upload API of task/upload: the create flow of                  *)
(* UploadFileViewSet (validate, upload to Cloudinary, insert the row,      *)
(* respond), the other routes the ModelViewSet registers, and the admin    *)
(* bulk delete, over one shared table of UploadedFile rows.                *)
(*                                                                         *)
(* Conventions.  A Python dict is a TLA+ function whose DOMAIN is the set  *)
(* of keys present.  Python's None in a string-valued slot is the value    *)
(* None below.  serializer.errors maps a field to a list of messages.      *)
(* updated_at is not modelled: nothing serialises or reads it.             *)
(***************************************************************************)
EXTENDS Integers, Sequences, FiniteSets, TLC

VARIABLES
    store,      \* the UploadedFile table: a set of rows
    nextId,     \* the table's auto-increment primary key
    now,        \* timezone.now(), in ticks
    req,        \* per create request in flight: position, file, gateway result,
                \* response, and what it has done so far (the transport's
                \* answer, the gateway calls, the insert attempts, the log lines)
    last        \* the response the step just taken sent on a route other than create

vars == <<store, nextId, now, req, last>>

-----------------------------------------------------------------------------
(* Bounds *)

\* Rows ever inserted (ids handed out) in one behaviour.
MaxRecords == 3

\* Rows ever inserted in one behaviour of the two larger specifications.
MaxBusy == 2

\* The request slots that may be in flight together.
Requests == {"r1", "r2"}

-----------------------------------------------------------------------------
(* Values *)

None == "<None>"

\* NULL in the file_size column (null=True); a PositiveIntegerField holds no
\* negative number, so -1 stands for it.
NullSize == -1

\* Python truthiness of a string-or-None value.
Truthy(v) == v # None /\ v # ""

\* dict.get(key), default None.
Get(d, key) == IF key \in DOMAIN d THEN d[key] ELSE None

max_size == 10 * 1024 * 1024

allowed_types ==
    { "image/jpeg", "image/jpg", "image/png", "image/gif",
      "application/pdf", "text/plain", "application/msword",
      "application/vnd.openxmlformats-officedocument.wordprocessingml.document" }

\* ', '.join(allowed_types)
allowed_types_joined ==
    "image/jpeg, image/jpg, image/png, image/gif, application/pdf, text/plain, "
    \o "application/msword, "
    \o "application/vnd.openxmlformats-officedocument.wordprocessingml.document"

\* No multipart field named file in the request.
NoFile == [name |-> "", size |-> 0, content_type |-> "", sniffed |-> "", present |-> FALSE]

\* An uploaded file: its name, byte length, declared content type, and what
\* its bytes really are (sniffed), which the code never reads.
File(n, s, ct, sn) ==
    [name |-> n, size |-> s, content_type |-> ct, sniffed |-> sn, present |-> TRUE]

-----------------------------------------------------------------------------
(* FileUploadSerializer *)

FileTooLarge == "File size cannot exceed 10MB"

UnsupportedType(ct) ==
    "File type '" \o ct \o "' is not supported. Allowed types: " \o allowed_types_joined

\* validate_file with the size limit off by one: exactly 10 MiB is refused.
validate_file_AtLimit(value) ==
    IF value.size >= max_size THEN FileTooLarge
    ELSE IF value.content_type \notin allowed_types THEN UnsupportedType(value.content_type)
    ELSE ""

\* validate_file deciding on what the bytes are instead of the declared type.
validate_file_Sniffing(value) ==
    IF value.size > max_size THEN FileTooLarge
    ELSE IF value.sniffed \notin allowed_types THEN UnsupportedType(value.sniffed)
    ELSE ""

\* validate_file: the message of the ValidationError it raises, or "" when it
\* returns the value.  The size is tested first, then the declared type.
validate_file(value) ==
    IF value.size > max_size THEN FileTooLarge
    ELSE IF value.content_type \notin allowed_types THEN UnsupportedType(value.content_type)
    ELSE ""

\* file = FileField(required=True): the field's own checks (a file is there,
\* it has a name, it is not empty) run before validate_file.
FileField(value) ==
    IF ~value.present THEN "No file was submitted."
    ELSE IF value.name = "" THEN "No filename could be determined."
    ELSE IF value.size = 0 THEN "The submitted file is empty."
    ELSE validate_file(value)

\* serializer.errors after is_valid(): empty when the data is valid.
serializer_errors(value) ==
    IF FileField(value) = "" THEN << >> ELSE [file |-> <<FileField(value)>>]

is_valid(value) == serializer_errors(value) = << >>

-----------------------------------------------------------------------------
(* utils.upload_to_cloudinary *)

\* What cloudinary.uploader.upload does on one call: it raises an exception
\* whose str() is msg, or it returns a dict.
Raises(msg) == [raised |-> TRUE, msg |-> msg, value |-> << >>]
Returns(d) == [raised |-> FALSE, msg |-> "", value |-> d]

\* try: return upload(file)  except Exception as e: return {"error": str(e)}
upload_to_cloudinary(transport) ==
    IF transport.raised THEN [error |-> transport.msg] ELSE transport.value

-----------------------------------------------------------------------------
(* UploadedFile and UploadedFileSerializer *)

\* round(x, 2) of x = num / den, in hundredths, ties to even as Python rounds.
RoundHundredths(num, den) ==
    LET q == (num * 100) \div den
        r == (num * 100) % den
    IN  IF 2 * r > den THEN q + 1
        ELSE IF 2 * r < den THEN q
        ELSE IF q % 2 = 0 THEN q ELSE q + 1

\* get_file_size_mb: None when file_size is falsy, else round(size / 2^20, 2).
get_file_size_mb(obj) ==
    IF obj.file_size \notin {0, NullSize}
    THEN [null |-> FALSE, hundredths |-> RoundHundredths(obj.file_size, 1024 * 1024)]
    ELSE [null |-> TRUE, hundredths |-> 0]

\* UploadedFileSerializer(obj).data, the fields of Meta.fields in order.
UploadedFileSerializer(obj) ==
    [ id             |-> obj.id,
      original_name  |-> obj.original_name,
      cloudinary_url |-> obj.cloudinary_url,
      file_size      |-> obj.file_size,
      file_size_mb   |-> get_file_size_mb(obj),
      content_type   |-> obj.content_type,
      upload_date    |-> obj.created_at ]

\* Meta.read_only_fields: the keys a write through the serializer ignores.
read_only_fields == {"id", "cloudinary_url", "upload_date"}

\* The model fields a write through UploadedFileSerializer may set.
writable_fields == {"original_name", "file_size", "content_type"}

\* Ordered by created_at ascending: the rows as a list, oldest first.
RECURSIVE Ordered_OldestFirst(_)
Ordered_OldestFirst(rows) ==
    IF rows = {} THEN << >>
    ELSE LET first == CHOOSE x \in rows : \A y \in rows : x.created_at <= y.created_at
         IN  <<first>> \o Ordered_OldestFirst(rows \ {first})

\* Meta.ordering = ['-created_at']: the rows as a list, newest first.
RECURSIVE Ordered(_)
Ordered(rows) ==
    IF rows = {} THEN << >>
    ELSE LET first == CHOOSE x \in rows : \A y \in rows : y.created_at <= x.created_at
         IN  <<first>> \o Ordered(rows \ {first})

-----------------------------------------------------------------------------
(* State *)

\* A request slot with no request in it.
IdleReq ==
    [ pc |-> "idle", file |-> NoFile, transport |-> Returns(<< >>), result |-> << >>,
      status |-> 0, body |-> << >>,
      gatewayCalls |-> 0, writeAttempts |-> 0, logs |-> << >> ]

NoResponse == [route |-> "none", status |-> 0, body |-> << >>]

Init ==
    /\ store = {}
    /\ nextId = 1
    /\ now = 1
    /\ req = [r \in Requests |-> IdleReq]
    /\ last = NoResponse

Ids(rows) == {x.id : x \in rows}

\* Response(body, status=...) returned by create: the request is over.
Respond(r, code, body) ==
    [req[r] EXCEPT !.pc = "done", !.status = code, !.body = body]

-----------------------------------------------------------------------------
(* UploadFileViewSet.create, in its three blocking steps *)

\* Validate without the early return: every file goes on to the gateway.
Validate_NoReturn(r, f) ==
    /\ req[r].pc = "idle"
    /\ req' = [req EXCEPT ![r] = [req[r] EXCEPT !.pc = "validated", !.file = f]]
    /\ last' = NoResponse
    /\ UNCHANGED <<store, nextId, now>>

\* Lines 26-35: build the serializer over request.data and validate it.
Validate(r, f) ==
    /\ req[r].pc = "idle"
    /\ req' = [req EXCEPT ![r] =
                 IF ~is_valid(f)
                 THEN [Respond(r, 400, [success |-> FALSE,
                                        message |-> "Validation failed",
                                        errors  |-> serializer_errors(f)])
                          EXCEPT !.file = f]
                 ELSE [req[r] EXCEPT !.pc = "validated", !.file = f]]
    /\ last' = NoResponse
    /\ UNCHANGED <<store, nextId, now>>

\* GatewayFailure with the cause under data instead of errors.
GatewayFailure_AsData(result) ==
    IF Truthy(Get(result, "error"))
    THEN [success |-> FALSE, message |-> "Cloudinary upload failed",
          data |-> [cloudinary |-> Get(result, "error")]]
    ELSE IF "secure_url" \notin DOMAIN result
    THEN [success |-> FALSE, message |-> "Upload failed - no URL received",
          errors |-> [cloudinary |-> "No secure URL returned"]]
    ELSE << >>

\* What lines 41-53 answer for a gateway result, or << >> to go on to the insert.
GatewayFailure(result) ==
    IF Truthy(Get(result, "error"))
    THEN [success |-> FALSE, message |-> "Cloudinary upload failed",
          errors |-> [cloudinary |-> Get(result, "error")]]
    ELSE IF "secure_url" \notin DOMAIN result
    THEN [success |-> FALSE, message |-> "Upload failed - no URL received",
          errors |-> [cloudinary |-> "No secure URL returned"]]
    ELSE << >>

\* Lines 39-53: the call to the gateway and the two tests of its result.
Upload(r, transport) ==
    /\ req[r].pc = "validated"
    /\ LET result == upload_to_cloudinary(transport)
           called == [req[r] EXCEPT !.transport = transport, !.result = result,
                                    !.gatewayCalls = @ + 1]
       IN  req' = [req EXCEPT ![r] =
                     IF GatewayFailure(result) # << >>
                     THEN [called EXCEPT !.pc = "done", !.status = 400,
                                         !.body = GatewayFailure(result)]
                     ELSE [called EXCEPT !.pc = "uploaded"]]
    /\ last' = NoResponse
    /\ UNCHANGED <<store, nextId, now>>

\* NewRecord built from the file of the first request slot, whoever inserts.
NewRecord_SharedFile(r) ==
    [ id             |-> nextId,
      original_name  |-> req["r1"].file.name,
      cloudinary_url |-> req[r].result["secure_url"],
      file_size      |-> req["r1"].file.size,
      content_type   |-> req["r1"].file.content_type,
      created_at     |-> now ]

\* NewRecord with the name and the declared type in each other's place.
NewRecord_Swapped(r) ==
    [ id             |-> nextId,
      original_name  |-> req[r].file.content_type,
      cloudinary_url |-> req[r].result["secure_url"],
      file_size      |-> req[r].file.size,
      content_type   |-> req[r].file.name,
      created_at     |-> now ]

\* The row UploadedFile.objects.create inserts for a request (lines 56-61).
NewRecord(r) ==
    [ id             |-> nextId,
      original_name  |-> req[r].file.name,
      cloudinary_url |-> req[r].result["secure_url"],
      file_size      |-> req[r].file.size,
      content_type   |-> req[r].file.content_type,
      created_at     |-> now ]

\* str(e) of what the insert raises: the column is NOT NULL, and the database
\* may fail on its own (db = FALSE); "" when the insert goes through.
InsertError(row, db) ==
    IF row.cloudinary_url = None
    THEN "NOT NULL constraint failed: upload_uploadedfile.cloudinary_url"
    ELSE IF ~db THEN "Database error"
    ELSE ""

\* Create with the row saved before the failure shows: the 500 leaves it behind.
Create_RowLeftBehind(r, db) ==
    /\ req[r].pc = "uploaded"
    /\ nextId <= MaxRecords
    /\ LET row == NewRecord(r)
           err == InsertError(row, db)
           tried == [req[r] EXCEPT !.writeAttempts = @ + 1]
       IN  /\ store' = store \cup {row}
           /\ nextId' = nextId + 1
           /\ now' = now + 1
           /\ req' = [req EXCEPT ![r] =
                        IF err = ""
                        THEN [tried EXCEPT !.pc = "done", !.status = 201,
                                  !.body = [success |-> TRUE,
                                            message |-> "File uploaded successfully",
                                            data |-> UploadedFileSerializer(row)]]
                        ELSE [tried EXCEPT !.pc = "done", !.status = 500,
                                  !.logs = Append(@, "Upload error: " \o err),
                                  !.body = [success |-> FALSE,
                                            message |-> "Upload failed",
                                            errors |-> [server |-> err]]]]
    /\ last' = NoResponse

\* Create that tries the insert a second time before it gives up.
Create_Retry(r, db) ==
    /\ req[r].pc = "uploaded"
    /\ LET row == NewRecord(r)
           err == InsertError(row, db)
       IN  IF err = ""
           THEN /\ nextId <= MaxRecords
                /\ store' = store \cup {row}
                /\ nextId' = nextId + 1
                /\ now' = now + 1
                /\ req' = [req EXCEPT ![r] =
                             [req[r] EXCEPT !.writeAttempts = @ + 1,
                                  !.pc = "done", !.status = 201,
                                  !.body = [success |-> TRUE,
                                            message |-> "File uploaded successfully",
                                            data |-> UploadedFileSerializer(row)]]]
           ELSE /\ req' = [req EXCEPT ![r] =
                             [req[r] EXCEPT !.writeAttempts = @ + 2,
                                  !.pc = "done", !.status = 500,
                                  !.logs = Append(@, "Upload error: " \o err),
                                  !.body = [success |-> FALSE,
                                            message |-> "Upload failed",
                                            errors |-> [server |-> err]]]]
                /\ UNCHANGED <<store, nextId, now>>
    /\ last' = NoResponse

\* Lines 56-77: the insert, then the 201, or the except branch's log and 500.
Create(r, db) ==
    /\ req[r].pc = "uploaded"
    /\ LET row == NewRecord(r)
           err == InsertError(row, db)
           tried == [req[r] EXCEPT !.writeAttempts = @ + 1]
       IN  IF err = ""
           THEN /\ nextId <= MaxRecords
                /\ store' = store \cup {row}
                /\ nextId' = nextId + 1
                /\ now' = now + 1
                /\ req' = [req EXCEPT ![r] =
                             [tried EXCEPT !.pc = "done", !.status = 201,
                                  !.body = [success |-> TRUE,
                                            message |-> "File uploaded successfully",
                                            data |-> UploadedFileSerializer(row)]]]
           ELSE /\ req' = [req EXCEPT ![r] =
                             [tried EXCEPT !.pc = "done", !.status = 500,
                                  !.logs = Append(@, "Upload error: " \o err),
                                  !.body = [success |-> FALSE,
                                            message |-> "Upload failed",
                                            errors |-> [server |-> err]]]]
                /\ UNCHANGED <<store, nextId, now>>
    /\ last' = NoResponse

\* The response has gone to the client; the slot takes the next request.
Finish(r) ==
    /\ req[r].pc = "done"
    /\ req' = [req EXCEPT ![r] = IdleReq]
    /\ last' = NoResponse
    /\ UNCHANGED <<store, nextId, now>>

-----------------------------------------------------------------------------
(* The other routes router.register gives a ModelViewSet, and the admin action *)

\* get_object() without the filter on the primary key: every row matches.
Found_AnyRow(id) == {x \in store : id = id}

\* get_object(): the row with this primary key, if any.
Found(id) == {x \in store : x.id = id}

NotFound == [detail |-> "Not found."]

\* UploadFileViewSet.list
List ==
    /\ LET rows == Ordered(store)
           data == [i \in 1..Len(rows) |-> UploadedFileSerializer(rows[i])]
       IN  last' = [route |-> "list", status |-> 200,
                    body |-> [success |-> TRUE, count |-> Len(data), data |-> data]]
    /\ UNCHANGED <<store, nextId, now, req>>

\* UploadFileViewSet.retrieve
Retrieve(id) ==
    /\ last' = IF Found(id) = {}
               THEN [route |-> "retrieve", pk |-> id, status |-> 404, body |-> NotFound]
               ELSE [route |-> "retrieve", pk |-> id, status |-> 200,
                     body |-> [success |-> TRUE,
                               data |-> UploadedFileSerializer(CHOOSE x \in Found(id) : TRUE)]]
    /\ UNCHANGED <<store, nextId, now, req>>

\* UploadedFileSerializer(instance, data=..., partial=...).errors: original_name
\* is the one required field, and it may not be blank.
UpdateErrors(data, partial) ==
    IF "original_name" \notin DOMAIN data
    THEN IF partial THEN << >> ELSE [original_name |-> <<"This field is required.">>]
    ELSE IF data["original_name"] = ""
    THEN [original_name |-> <<"This field may not be blank.">>]
    ELSE << >>

\* Updated with cloudinary_url writable: no read_only_fields in Meta.
Updated_UrlWritable(row, data) ==
    [k \in DOMAIN row |->
        IF k \in DOMAIN data /\ k \in writable_fields \cup {"cloudinary_url"}
        THEN data[k] ELSE row[k]]

\* serializer.save() on an instance: the validated writable fields are set,
\* the read-only ones a client sends are dropped.
Updated(row, data) ==
    [k \in DOMAIN row |->
        IF k \in DOMAIN data /\ k \in writable_fields THEN data[k] ELSE row[k]]

\* PUT (partial = FALSE) and PATCH (partial = TRUE) on the item route: update
\* and partial_update as the ModelViewSet base class serves them.
Update(id, data, partial) ==
    /\ LET route == IF partial THEN "partial_update" ELSE "update"
       IN  IF Found(id) = {}
           THEN /\ last' = [route |-> route, status |-> 404, body |-> NotFound]
                /\ UNCHANGED store
           ELSE IF UpdateErrors(data, partial) # << >>
           THEN /\ last' = [route |-> route, status |-> 400,
                            body |-> UpdateErrors(data, partial)]
                /\ UNCHANGED store
           ELSE LET row == CHOOSE x \in Found(id) : TRUE
                    new == Updated(row, data)
                IN  /\ store' = (store \ {row}) \cup {new}
                    /\ last' = [route |-> route, status |-> 200,
                                body |-> UploadedFileSerializer(new)]
    /\ UNCHANGED <<nextId, now, req>>

\* DELETE on the item route: destroy as the ModelViewSet base class serves it.
Destroy(id) ==
    /\ IF Found(id) = {}
       THEN /\ last' = [route |-> "destroy", status |-> 404, body |-> NotFound]
            /\ UNCHANGED store
       ELSE /\ store' = store \ Found(id)
            /\ last' = [route |-> "destroy", status |-> 204, body |-> << >>]
    /\ UNCHANGED <<nextId, now, req>>

\* admin.bulk_delete_files over the selected rows: count them, delete them,
\* report the count.  The Cloudinary cleanup is commented out.
bulk_delete_files(queryset) ==
    /\ queryset # {}
    /\ queryset \subseteq store
    /\ store' = store \ queryset
    /\ last' = [route |-> "admin.bulk_delete_files", status |-> 200,
                body |-> [deleted |-> Cardinality(queryset)]]
    /\ UNCHANGED <<nextId, now, req>>

-----------------------------------------------------------------------------
(* Inputs *)

SecureUrl1 == "https://res.cloudinary.com/test/uploaded_file.jpg"
SecureUrl2 == "https://res.cloudinary.com/test/pytest_file.jpg"
ClientUrl  == "https://client.example/own.jpg"

\* The files clients submit while requests interleave.
Files ==
    { NoFile,
      File("test.txt", 11, "text/plain", "text/plain"),
      File("test_image.jpg", 825, "image/jpeg", "image/jpeg"),
      File("large.txt", max_size + 1, "text/plain", "text/plain"),
      File("test2.json", 16, "application/json", "application/json") }

\* What the transport does on a call while requests interleave.
Transports ==
    { Raises("Upload failed"),
      Returns([public_id |-> "test_id"]),
      Returns([secure_url |-> SecureUrl1, public_id |-> "test_public_id"]) }

\* The files of the one-request-at-a-time specification: every size around the
\* limit, declared types in and out of the list, bytes that belie the declared type.
WideFiles ==
    { NoFile, File("", 11, "text/plain", "text/plain") }
    \cup { File("sized.txt", n, "text/plain", "text/plain") :
             n \in {0, 1, max_size - 1, max_size, max_size + 1, 2 * max_size} }
    \cup { File("typed.bin", 11, ct, "application/octet-stream") :
             ct \in {"image/png", "application/pdf", "application/json", "text/csv",
                     "text/html", "IMAGE/PNG", ""} }
    \cup { File("page.png", 11, "image/png", "text/html"),
           File("shot.exe", 11, "application/x-msdownload", "image/png"),
           File("large.json", max_size + 1, "application/json", "application/json") }

\* Every way the transport answers a call.
WideTransports ==
    { Raises("Upload failed"),
      Raises("The read operation timed out"),
      Raises(""),
      Returns([public_id |-> "test_id"]),
      Returns(<< >>),
      Returns([secure_url |-> SecureUrl1, public_id |-> "test_public_id"]),
      Returns([secure_url |-> SecureUrl2]),
      Returns([secure_url |-> ""]),
      Returns([secure_url |-> None]),
      Returns([error |-> "Invalid image file", secure_url |-> SecureUrl1]) }

\* The bodies clients send to PUT and PATCH.
UpdateBodies ==
    { [original_name |-> "renamed.txt", cloudinary_url |-> ClientUrl,
       file_size |-> 0, content_type |-> "text/html"],
      [cloudinary_url |-> ClientUrl] }

\* The primary keys clients ask for: those of the rows in the table, and one
\* that no row has.
AskedIds == Ids(store) \cup {nextId}

-----------------------------------------------------------------------------
(* Spec: every route, create requests interleaved step by step *)

Next ==
    \/ \E r \in Requests, f \in Files : Validate(r, f)
    \/ \E r \in Requests, t \in Transports : Upload(r, t)
    \/ \E r \in Requests, db \in BOOLEAN : Create(r, db) /\ nextId' <= MaxBusy + 1
    \/ \E r \in Requests : Finish(r)
    \/ List
    \/ \E id \in AskedIds : Retrieve(id)
    \/ \E id \in AskedIds, data \in UpdateBodies, partial \in BOOLEAN :
          Update(id, data, partial)
    \/ \E id \in AskedIds : Destroy(id)
    \/ \E queryset \in SUBSET store : bulk_delete_files(queryset)

Spec == Init /\ [][Next]_vars

(* SpecWide: one create request at a time over the wide inputs, and list *)

NextWide ==
    \/ \E f \in WideFiles : Validate("r1", f)
    \/ \E t \in WideTransports : Upload("r1", t)
    \/ \E db \in BOOLEAN : Create("r1", db) /\ nextId' <= MaxBusy + 1
    \/ Finish("r1")
    \/ List

SpecWide == Init /\ [][NextWide]_vars

(* SpecRead: one create request at a time over one file, and every other route *)

\* The files of the reading specification.
ReadFiles == { NoFile, File("test.txt", 11, "text/plain", "text/plain") }

\* The bodies of PUT and PATCH of the reading specification: file_size set to
\* nothing, to zero, and to sizes whose megabytes fall between two hundredths.
ReadBodies ==
    { [file_size |-> n] : n \in {NullSize, 0, 131072, 393216} }

NextRead ==
    \/ \E f \in ReadFiles : Validate("r1", f)
    \/ \E t \in Transports : Upload("r1", t)
    \/ \E db \in BOOLEAN : Create("r1", db)
    \/ Finish("r1")
    \/ List
    \/ \E id \in AskedIds : Retrieve(id)
    \/ \E id \in AskedIds, data \in ReadBodies, partial \in BOOLEAN :
          Update(id, data, partial)
    \/ \E id \in AskedIds : Destroy(id)
    \/ \E queryset \in SUBSET store : bulk_delete_files(queryset)

SpecRead == Init /\ [][NextRead]_vars

-----------------------------------------------------------------------------
(* Claims *)

\* A create request of slot r answers in this step.
Answers(r) == req[r].pc # "done" /\ req'[r].pc = "done"

\* C1: a create request that answers 201 has added exactly one row to the
\* table, and that row holds the secure_url the gateway returned to this
\* request, and the name, byte length and declared type of this request's file.
C1_SuccessfulCreate ==
    [][\A r \in Requests :
         (Answers(r) /\ req'[r].status = 201) =>
            /\ Cardinality(store') = Cardinality(store) + 1
            /\ \E row \in store' \ store :
                 /\ store' = store \cup {row}
                 /\ row.id \notin Ids(store)
                 /\ row.cloudinary_url = req[r].result["secure_url"]
                 /\ row.cloudinary_url = req[r].transport.value["secure_url"]
                 /\ row.original_name = req[r].file.name
                 /\ row.file_size = req[r].file.size
                 /\ row.content_type = req[r].file.content_type]_vars

\* Two requests in flight together have both answered 201, each for its own
\* file, and both rows are in the table.
C1_Witness ==
    /\ req["r1"].status = 201 /\ req["r2"].status = 201
    /\ req["r1"].file # req["r2"].file
    /\ \A r \in Requests : \E row \in store :
          /\ row.id = req[r].body.data.id
          /\ row.cloudinary_url = req[r].result["secure_url"]
          /\ row.original_name = req[r].file.name

\* C2: a step of a create request changes the table only when it is the step
\* that answers 201; a request that answers 400 or 500 leaves the table as it was.
C2_NoWriteWithout201 ==
    [][/\ \A r \in Requests :
            (Answers(r) /\ req'[r].status \in {400, 500}) => store' = store
       /\ (req' # req /\ store' # store) =>
            \E r \in Requests : Answers(r) /\ req'[r].status = 201]_vars

\* One request has answered 500 after its insert failed, the other 400 after
\* its gateway call, and a row of an earlier request is in the table.
C2_Witness ==
    /\ req["r1"].status = 500 /\ req["r1"].writeAttempts = 1
    /\ req["r2"].status = 400 /\ req["r2"].gatewayCalls = 1
    /\ Cardinality(store) = 1

\* C3: whenever the transport raises, whatever the exception's message, the
\* adapter hands back a failure result and the request answers 400 with
\* success false, message "Cloudinary upload failed" and the exception's
\* string under errors.cloudinary, without attempting an insert.
C3_TransportErrorAnswer ==
    \A r \in Requests :
       (req[r].gatewayCalls = 1 /\ req[r].transport.raised) =>
          /\ DOMAIN req[r].result = {"error"}
          /\ req[r].result["error"] = req[r].transport.msg
          /\ req[r].pc = "done"
          /\ req[r].status = 400
          /\ req[r].body = [success |-> FALSE,
                            message |-> "Cloudinary upload failed",
                            errors |-> [cloudinary |-> req[r].transport.msg]]
          /\ req[r].writeAttempts = 0

\* The rows with these ids keep the four values they had.
SameFour(x, y) ==
    /\ x.original_name = y.original_name
    /\ x.cloudinary_url = y.cloudinary_url
    /\ x.file_size = y.file_size
    /\ x.content_type = y.content_type

\* C4: no step changes original_name, cloudinary_url, file_size or
\* content_type of a row that is in the table.
C4_RowsImmutable ==
    [][\A x \in store : \A y \in store' : x.id = y.id => SameFour(x, y)]_vars

\* C5: a row leaves the table only in a step of the admin bulk delete, and
\* that step calls the hosting provider for no request.
C5_OnlyBulkDeleteRemoves ==
    [][/\ ~(Ids(store) \subseteq Ids(store')) => last'.route = "admin.bulk_delete_files"
       /\ last'.route = "admin.bulk_delete_files" => req' = req]_vars

\* The file of a request fails validation: it is missing, too long, or of a
\* declared type outside the list.
Rejected(f) ==
    \/ ~f.present
    \/ f.size > 10485760
    \/ f.content_type \notin
         { "image/jpeg", "image/jpg", "image/png", "image/gif", "application/pdf",
           "text/plain", "application/msword",
           "application/vnd.openxmlformats-officedocument.wordprocessingml.document" }

\* C6: in one create request the gateway is called at most once and the
\* insert attempted at most once, the gateway only after the file has passed
\* validation and the insert only after the gateway call has returned; a
\* request whose file fails validation answers 400 "Validation failed" and
\* calls neither.
C6_StepOrder ==
    \A r \in Requests :
       /\ req[r].gatewayCalls \in {0, 1}
       /\ req[r].writeAttempts \in {0, 1}
       /\ req[r].pc \in {"idle", "validated"} =>
             req[r].gatewayCalls = 0 /\ req[r].writeAttempts = 0
       /\ req[r].pc = "uploaded" =>
             req[r].gatewayCalls = 1 /\ req[r].writeAttempts = 0
       /\ req[r].writeAttempts = 1 =>
             req[r].gatewayCalls = 1 /\ req[r].pc = "done" /\ req[r].status \in {201, 500}
       /\ (req[r].pc # "idle" /\ Rejected(req[r].file)) =>
             /\ req[r].pc = "done"
             /\ req[r].status = 400
             /\ req[r].body.message = "Validation failed"
             /\ req[r].gatewayCalls = 0
             /\ req[r].writeAttempts = 0

\* One request has been rejected at validation and called nothing, while the
\* other has gone through gateway call and insert.
C6_Witness ==
    /\ req["r1"].pc = "done" /\ Rejected(req["r1"].file) /\ req["r1"].gatewayCalls = 0
    /\ req["r2"].status = 201 /\ req["r2"].gatewayCalls = 1 /\ req["r2"].writeAttempts = 1

\* The eight declared types the claims list.
EightTypes ==
    { "image/jpeg", "image/jpg", "image/png", "image/gif", "application/pdf",
      "text/plain", "application/msword",
      "application/vnd.openxmlformats-officedocument.wordprocessingml.document" }

\* The request of slot r has answered 400 "Validation failed".
ValidationFailed(r) ==
    /\ req[r].pc = "done"
    /\ req[r].status = 400
    /\ req[r].body.message = "Validation failed"

GatewayGaveUrl(r) ==
    req[r].gatewayCalls = 1 =>
       /\ ~req[r].transport.raised
       /\ "error" \notin DOMAIN req[r].transport.value
       /\ Truthy(Get(req[r].transport.value, "secure_url"))

\* C9: with the gateway returning a secure URL and the insert going through,
\* a request for a small non-empty file declared text/plain, application/json
\* or text/csv answers 201; and the list route reports as count the number
\* of rows uploaded so far.
C9_ThreeTypesCreated ==
    /\ \A r \in Requests :
          (/\ req[r].pc = "done"
           /\ req[r].file.present
           /\ req[r].file.name # ""
           /\ req[r].file.size \in 1..1024
           /\ req[r].file.content_type \in {"text/plain", "application/json", "text/csv"}
           /\ GatewayGaveUrl(r)
           /\ req[r].status # 500) => req[r].status = 201
    /\ last.route = "list" => last.body.count = nextId - 1

\* The answer of lines 49-53.
NoUrlAnswer ==
    [ success |-> FALSE,
      message |-> "Upload failed - no URL received",
      errors  |-> [cloudinary |-> "No secure URL returned"] ]

\* C10: a gateway call that returns with neither an error nor a secure_url
\* makes the request answer 400 with the no-URL answer and attempt no insert,
\* and no request whose transport raised gets that answer.
C10_NoUrlDistinct ==
    \A r \in Requests :
       /\ (/\ req[r].gatewayCalls = 1
           /\ ~req[r].transport.raised
           /\ "error" \notin DOMAIN req[r].transport.value
           /\ "secure_url" \notin DOMAIN req[r].transport.value) =>
             /\ req[r].pc = "done"
             /\ req[r].status = 400
             /\ req[r].body = NoUrlAnswer
             /\ req[r].writeAttempts = 0
       /\ (req[r].gatewayCalls = 1 /\ req[r].transport.raised) =>
             req[r].body # NoUrlAnswer

\* C11: when the gateway has returned a secure_url and the insert raises, the
\* request answers 500 with success false, message "Upload failed" and the
\* exception's text under errors.server; it has logged that text once, tried
\* the insert once and called the hosting provider once, for the upload; the
\* table, the id counter and every other request are as they were.
C11_InsertFailure ==
    [][\A r \in Requests :
         (/\ req[r].pc = "uploaded"
          /\ Answers(r)
          /\ (req'[r].status # 201 \/ store' = store)) =>
            /\ req'[r].status = 500
            /\ req'[r].body.success = FALSE
            /\ req'[r].body.message = "Upload failed"
            /\ DOMAIN req'[r].body = {"success", "message", "errors"}
            /\ DOMAIN req'[r].body.errors = {"server"}
            /\ req'[r].body.errors.server \in
                 { "Database error",
                   "NOT NULL constraint failed: upload_uploadedfile.cloudinary_url" }
            /\ req'[r].logs = <<"Upload error: " \o req'[r].body.errors.server>>
            /\ req'[r].writeAttempts = 1
            /\ req'[r].gatewayCalls = 1
            /\ store' = store
            /\ nextId' = nextId
            /\ \A q \in Requests \ {r} : req'[q] = req[q]]_vars

\* A request whose gateway call returned a secure_url has answered 500 after
\* one insert attempt and one log line, and no row was added to the table.
C11_Witness ==
    /\ req["r1"].status = 500
    /\ req["r1"].result["secure_url"] = SecureUrl1
    /\ req["r1"].body.errors.server = "Database error"
    /\ Len(req["r1"].logs) = 1
    /\ req["r1"].writeAttempts = 1
    /\ store = {}
    /\ nextId = 1

\* The messages create puts in an envelope.
EnvelopeMessages ==
    { "Validation failed", "Cloudinary upload failed",
      "Upload failed - no URL received", "File uploaded successfully",
      "Upload failed" }

\* The response of slot r is an envelope: a status among 201, 400 and 500, a
\* boolean success that is true exactly for 201, a string message, data exactly
\* when success is true, errors exactly when it is false.
IsEnvelope(r) ==
    /\ req[r].status \in {201, 400, 500}
    /\ {"success", "message"} \subseteq DOMAIN req[r].body
    /\ DOMAIN req[r].body \subseteq {"success", "message", "data", "errors"}
    /\ req[r].body.success \in BOOLEAN
    /\ req[r].body.message \in EnvelopeMessages
    /\ req[r].body.success <=> req[r].status = 201
    /\ "data" \in DOMAIN req[r].body <=> req[r].body.success
    /\ "errors" \in DOMAIN req[r].body <=> ~req[r].body.success

C13_UrlFromGateway ==
    [][\A x \in store' :
         \/ \E y \in store : y.id = x.id /\ y.cloudinary_url = x.cloudinary_url
         \/ /\ x.id \notin Ids(store)
            /\ \E r \in Requests :
                  /\ Answers(r)
                  /\ req[r].pc = "uploaded"
                  /\ ~req[r].transport.raised
                  /\ "secure_url" \in DOMAIN req[r].transport.value
                  /\ x.cloudinary_url = req[r].transport.value["secure_url"]]_vars

\* A PUT that carried the client's own cloudinary_url was accepted and renamed
\* the row, and the row still holds the gateway's url.
C13_Witness ==
    /\ last.route = "update"
    /\ last.status = 200
    /\ last.body.original_name = "renamed.txt"
    /\ last.body.cloudinary_url = SecureUrl1
    /\ \E x \in store : x.original_name = "renamed.txt" /\ x.cloudinary_url = SecureUrl1

\* C14: list answers 200 with success true, count equal to the number of rows
\* in the table and to the length of data; data holds the serialised form of
\* every row exactly once, newest created_at first; the step leaves the table,
\* the id counter and the create requests as they were, so the answer is a
\* function of the table alone and a second list of the same table equals it.
C14_ListNewestFirst ==
    [][last'.route = "list" =>
         LET data == last'.body.data
         IN  /\ store' = store
             /\ nextId' = nextId
             /\ req' = req
             /\ last'.status = 200
             /\ last'.body.success = TRUE
             /\ last'.body.count = Cardinality(store)
             /\ Len(data) = last'.body.count
             /\ {data[i].id : i \in 1..Len(data)} = Ids(store)
             /\ \A i \in 1..Len(data) :
                   \E x \in store : data[i] = UploadedFileSerializer(x)
             /\ \A i \in 1..Len(data), j \in 1..Len(data) :
                   i < j => data[i].upload_date > data[j].upload_date]_vars

\* list has answered for a table of three rows created one after the other,
\* the last created first.
C14_Witness ==
    /\ last.route = "list"
    /\ last.body.count = 3
    /\ Cardinality(store) = 3
    /\ last.body.data[1].upload_date > last.body.data[2].upload_date
    /\ last.body.data[2].upload_date > last.body.data[3].upload_date

\* C15: retrieve by id answers 200 with success true and data equal to the
\* serialised row that has that id when the table holds one, and 404 when it
\* holds none; either way the table, the id counter and the create requests
\* are as they were.
C15_RetrieveById ==
    [][last'.route = "retrieve" =>
         /\ store' = store
         /\ nextId' = nextId
         /\ req' = req
         /\ \A x \in store :
               x.id = last'.pk =>
                  /\ last'.status = 200
                  /\ last'.body.success = TRUE
                  /\ last'.body.data = UploadedFileSerializer(x)
         /\ (\A x \in store : x.id # last'.pk) => last'.status = 404
         /\ last'.status \in {200, 404}]_vars

\* retrieve has answered 200 with the second of two rows, whose name differs
\* from the first row's.
C15_Witness ==
    /\ last.route = "retrieve"
    /\ last.status = 200
    /\ last.pk = 2
    /\ last.body.data.id = 2
    /\ \E x \in store : x.id = 1 /\ x.file_size # last.body.data.file_size

\* The serialised rows in the response of the step just taken.
SerialisedInLast ==
    IF last.status # 200 THEN {}
    ELSE IF last.route = "list"
    THEN {last.body.data[i] : i \in 1..Len(last.body.data)}
    ELSE IF last.route = "retrieve" THEN {last.body.data}
    ELSE IF last.route \in {"update", "partial_update"} THEN {last.body}
    ELSE {}

\* C16: in the serialised form of a row, file_size_mb is there and equals
\* round(file_size / 1048576, 2) whenever file_size is set, 0 included, and is
\* null exactly when file_size is not set.
C16_SizeInMegabytes ==
    \A d \in SerialisedInLast :
        /\ d.file_size = NullSize <=> d.file_size_mb.null
        /\ d.file_size # NullSize =>
              d.file_size_mb.hundredths = RoundHundredths(d.file_size, 1048576)

\* C17: two create requests in flight together are independent under every
\* interleaving of their steps: a step of one leaves the other as it was; the
\* answer of each follows from its own file and its own gateway outcome; a
\* request that answers 201 adds one row holding its own file's name, size and
\* type and its own gateway url, under an id no row and no other answered
\* request has, also when both requests carry the same file.
C17_Independent ==
    [][\A r \in Requests :
         /\ req'[r] # req[r] => \A q \in Requests \ {r} : req'[q] = req[q]
         /\ Answers(r) =>
              LET me == req'[r]
                  f  == me.file
                  t  == me.transport
              IN  /\ Rejected(f) =>
                        /\ me.status = 400
                        /\ me.body.message = "Validation failed"
                        /\ me.gatewayCalls = 0
                  /\ (~Rejected(f) /\ t.raised) =>
                        /\ me.status = 400
                        /\ me.body.message = "Cloudinary upload failed"
                        /\ me.body.errors.cloudinary = t.msg
                  /\ (~Rejected(f) /\ ~t.raised /\ "secure_url" \notin DOMAIN t.value) =>
                        /\ me.status = 400
                        /\ me.body.message = "Upload failed - no URL received"
                  /\ (~Rejected(f) /\ ~t.raised /\ "secure_url" \in DOMAIN t.value) =>
                        me.status \in {201, 500}
                  /\ me.status = 201 =>
                        /\ ~Rejected(f) /\ ~t.raised
                        /\ me.body.data.original_name = f.name
                        /\ me.body.data.file_size = f.size
                        /\ me.body.data.content_type = f.content_type
                        /\ me.body.data.cloudinary_url = t.value["secure_url"]
                        /\ me.body.data.id \notin Ids(store)
                        /\ Cardinality(store') = Cardinality(store) + 1
                        /\ \E row \in store' \ store :
                              /\ row.id = me.body.data.id
                              /\ row.original_name = f.name
                              /\ row.cloudinary_url = t.value["secure_url"]
                        /\ \A q \in Requests \ {r} :
                              req[q].status = 201 =>
                                 req[q].body.data.id # me.body.data.id]_vars

\* Two requests in flight together carried the same file, both answered 201
\* under different ids, and the table holds both rows under the same name.
C17_Witness ==
    /\ req["r1"].status = 201 /\ req["r2"].status = 201
    /\ req["r1"].file = req["r2"].file
    /\ req["r1"].body.data.id # req["r2"].body.data.id
    /\ \A r \in Requests : \E row \in store :
          /\ row.id = req[r].body.data.id
          /\ row.original_name = "test_image.jpg"

\* The gateway result of slot r holds no usable url: its secure_url is empty
\* or null, or it carries an error beside the secure_url.
UnusableUrl(r) ==
    /\ req[r].gatewayCalls > 0
    /\ "secure_url" \in DOMAIN req[r].result
    /\ \/ req[r].result["secure_url"] \in {"", None}
       \/ "error" \in DOMAIN req[r].result

\* C18: the insert happens only after the gateway result is seen to hold a
\* usable url: every row in the table has a non-empty cloudinary_url, and a
\* request whose gateway result has an empty or null secure_url, or an error
\* beside the secure_url, does not answer 201.
C18_UsableUrlBeforeWrite ==
    /\ \A x \in store : x.cloudinary_url \notin {"", None}
    /\ \A r \in Requests :
          UnusableUrl(r) => req[r].status # 201

====
